---- MODULE Spec2Model ----
(***************************************************************************)
(* Tiger Bot Scout: the script / feedback / hive-learning pipeline of      *)
(* src/api/server.ts (REST) and the Telegram bot (src/unnamed/part_002).   *)
(*                                                                         *)
(* The three tables of initDatabase are sequences of rows; a row's id is   *)
(* its index (gen_random_uuid() only has to be fresh).  Every handler is   *)
(* split at its awaits: one action is "the awaited query executes in the   *)
(* database and the handler runs on to its next await or to its reply".    *)
(* A query may throw (store failure); that is the parameter `fail`.        *)
(*                                                                         *)
(* Spec          script generation, from the empty database                *)
(* SpecFeedback  feedback submissions, one at a time, every input and      *)
(*               every store failure, on scripts that Spec generates       *)
(* SpecRace      positive feedback submissions running concurrently        *)
(* SpecHive      the learnings list and the leaderboard, on populated      *)
(*               learnings tables, between wins                            *)
(* SpecLeads     lead creation and update through the REST API             *)
(* SpecLeadList  lead lists with every filter, between lead creations and  *)
(*               status updates                                            *)
(* SpecReport    daily report runs on request, on populated leads tables,  *)
(*               with every failure of the store and of the AI             *)
(* SpecCron      the scheduled report runs over the hours after start-up   *)
(* SpecBot       the Telegram bot with and without an allow-list: /script, *)
(*               feedback buttons and /report from every chat              *)
(***************************************************************************)
EXTENDS Integers, Sequences, FiniteSets, TLC

\* ---------------------------------------------------------------- bounds
MaxLeads   == 2      \* rows of table leads
MaxScripts == 2      \* rows of table script_feedback
MaxWins    == 2      \* learning upserts applied or in flight
MaxNow     == 1      \* ticks of the wall clock
MaxReq     == 2      \* requests in flight at once
MaxTies    == 2      \* rows of a learnings table drawn with every count
MaxLearnings == 11   \* rows of the largest learnings table drawn
MaxMixed   == 3      \* rows of a leads table drawn with every kind of lead
MaxProspects == 4    \* rows of the largest leads table a report reads
MaxHour    == 24     \* hours the scheduler's clock runs after start-up

\* ------------------------------------------------------- value encodings
Null        == "NULL"      \* SQL NULL / JS undefined in a text position
EmptyText   == ""          \* the empty string ''
NullTime    == -1          \* SQL NULL in a timestamp position
NoId        == -2          \* no id given in the request
MalformedId == -1          \* an id that is not a UUID (the bot's 'unknown')
GhostId     == 0           \* a well-formed UUID that no row has
NotANumber  == -999        \* parseInt of an absent or non-numeric string
NoScore     == -998        \* no score / ai_score in the request body
NoCount     == -1          \* a COUNT(*) not yet read

Texts == {"t1", "t2"}      \* texts the AI can return, besides ''
Chats == {1, 2}            \* Telegram chat ids

VARIABLES now, leads, scripts, learnings, reqs, out,
          aiConfigured, allowedUsers, cron, posOk, raced

vars == <<now, leads, scripts, learnings, reqs, out,
          aiConfigured, allowedUsers, cron, posOk, raced>>

\* the handlers that can run at once
Slots == DOMAIN reqs

\* ------------------------------------------------------------- feedback
\* the three recognized feedback values
FeedbackValues == {"no_response", "got_reply", "converted"}

\* the values a request can carry in the feedback position
FeedbackInputs == FeedbackValues \cup {"maybe", Null}

\* REST: ['no_response','got_reply','converted'].includes(feedback)
IsValidFeedback(f) == f \in FeedbackValues

\* mutant: every recognized value reaches the aggregation
AnyFeedback(f) == f \in FeedbackValues

\* mutant: only got_reply reaches the aggregation
OnlyGotReply(f) == f = "got_reply"

\* feedback === 'got_reply' || feedback === 'converted'
IsPositive(f) == f = "got_reply" \/ f = "converted"

\* column constraint CHECK (feedback IN (...)): a CHECK is satisfied when
\* its expression is true or NULL
FeedbackCheck(f) == f = Null \/ f \in FeedbackValues

\* ---------------------------------------------------------------- leads
\* request bodies of POST /ai-crm/leads: the n-th lead that is stored comes
\* from a body of LeadInputs(n), or the body is one without a name
LeadInputs(n) ==
  { IF n % 2 = 1
    THEN [name |-> <<"A", "n">>, source |-> "LINE", notes |-> "pricing", score |-> 85]
    ELSE [name |-> <<"a", "b">>, source |-> "FB",   notes |-> Null,      score |-> 60],
    [name |-> <<>>, source |-> "FB", notes |-> Null, score |-> 60] }

\* `score || 0`: an absent score and 0 are falsy
ScoreOrZero(sc) == IF sc = NoScore \/ sc = 0 THEN 0 ELSE sc

\* INSERT INTO leads (name, ..., notes, source, status, ..., ai_score, ...,
\* created_at, updated_at) VALUES ($1, ..., 'new', ..., score || 0, ..., NOW(), NOW())
\* at time t; next_best_action takes its default NULL
InsertLead(ls, in, t) ==
  Append(ls, [name |-> in.name, source |-> in.source, notes |-> in.notes,
              status |-> "new", ai_score |-> ScoreOrZero(in.score),
              next_best_action |-> Null, created_at |-> t])

\* names searched for by /script <name> and by prospect_name; the empty name
\* is a prospect_name only (the bot's pattern (.+) needs a character)
SearchNames == { <<"a">>, <<"N">>, <<"z">>, <<"_", "b">>, <<>> }

LowerChar(c) == IF c = "A" THEN "a" ELSE IF c = "N" THEN "n" ELSE c

\* SQL LOWER()
Lower(s) == [i \in DOMAIN s |-> LowerChar(s[i])]

\* SQL LIKE: % matches any run of characters, _ any one character
RECURSIVE LikeMatch(_, _)
LikeMatch(p, s) ==
  IF p = <<>> THEN s = <<>>
  ELSE IF Head(p) = "%"
       THEN LikeMatch(Tail(p), s) \/ (s # <<>> /\ LikeMatch(p, Tail(s)))
       ELSE /\ s # <<>>
            /\ (Head(p) = "_" \/ Head(p) = Head(s))
            /\ LikeMatch(Tail(p), Tail(s))

\* WHERE LOWER(name) LIKE LOWER('%' || search || '%')
NameMatches(ls, i, search) ==
  LikeMatch(Lower(<<"%">> \o search \o <<"%">>), Lower(ls[i].name))

\* ... ORDER BY ai_score DESC LIMIT 1: the candidates for rows[0]
\* (rows of equal score come in an order the database chooses)
FindByName(ls, search) ==
  { i \in DOMAIN ls :
      /\ NameMatches(ls, i, search)
      /\ \A j \in DOMAIN ls :
           NameMatches(ls, j, search) => ls[j].ai_score <= ls[i].ai_score }

\* SELECT * FROM leads WHERE id = $1
FindById(ls, id) == { i \in DOMAIN ls : i = id }

\* --------------------------------------------------------------- scripts
\* INSERT INTO script_feedback (prospect_id, script_text, script_type, tenant_id)
\* feedback and feedback_at take their default NULL
InsertScript(ss, pid, text) ==
  Append(ss, [prospect_id |-> pid, script_text |-> text,
              script_type |-> "approach", feedback |-> Null,
              feedback_at |-> NullTime])

\* mutant: ... WHERE id = $2 AND feedback IS NULL (the first feedback sticks)
UpdateFeedbackOnce(ss, sid, f, t) ==
  [i \in DOMAIN ss |->
     IF i = sid /\ ss[i].feedback = Null
     THEN [ss[i] EXCEPT !.feedback = f, !.feedback_at = t]
     ELSE ss[i]]

\* UPDATE script_feedback SET feedback = $1, feedback_at = NOW() WHERE id = $2
UpdateFeedback(ss, sid, f, t) ==
  [i \in DOMAIN ss |->
     IF i = sid THEN [ss[i] EXCEPT !.feedback = f, !.feedback_at = t]
     ELSE ss[i]]

\* the UPDATE raises: the id is no UUID, or a matched row would break the CHECK
UpdateRaises(ss, sid, f) ==
  \/ sid = MalformedId
  \/ (sid \in DOMAIN ss /\ ~FeedbackCheck(f))

NoRow == [found |-> FALSE, script_text |-> Null, script_type |-> Null,
          source |-> Null, notes |-> Null]

\* SELECT sf.script_text, sf.script_type, l.source, l.notes
\* FROM script_feedback sf LEFT JOIN leads l ON sf.prospect_id = l.id
\* WHERE sf.id = $1
SelectScript(ss, ls, sid) ==
  IF sid \in DOMAIN ss
  THEN LET s == ss[sid] IN
       [found |-> TRUE, script_text |-> s.script_text,
        script_type |-> s.script_type,
        source |-> IF s.prospect_id \in DOMAIN ls
                   THEN ls[s.prospect_id].source ELSE Null,
        notes  |-> IF s.prospect_id \in DOMAIN ls
                   THEN ls[s.prospect_id].notes ELSE Null]
  ELSE NoRow

\* ------------------------------------------------------------- learnings
\* `winning_${script_type || 'approach'}` (REST)
RestLearningType(t) ==
  IF t = Null \/ t = EmptyText THEN <<"winning_", "approach">>
  ELSE <<"winning_", t>>

\* `winning_${script_type}` (Telegram)
TgLearningType(t) == <<"winning_", t>>

\* JSON.stringify({ source, signal: notes, feedback })
Context(row, f) == [source |-> row.source, signal |-> row.notes, feedback |-> f]

\* mutant: ON CONFLICT (content) DO NOTHING
UpsertDoNothing(hl, ltype, content, ctx) ==
  IF \E i \in DOMAIN hl : hl[i].content = content
  THEN hl
  ELSE Append(hl, [learning_type |-> ltype, content |-> content,
                   context |-> ctx, success_count |-> 1])

\* mutant: a plain INSERT into a table without the UNIQUE constraint
UpsertPlainInsert(hl, ltype, content, ctx) ==
  Append(hl, [learning_type |-> ltype, content |-> content,
              context |-> ctx, success_count |-> 1])

\* mutant: DO UPDATE SET context = EXCLUDED.context, success_count = ... + 1
UpsertOverwrite(hl, ltype, content, ctx) ==
  IF \E i \in DOMAIN hl : hl[i].content = content
  THEN [i \in DOMAIN hl |->
          IF hl[i].content = content
          THEN [hl[i] EXCEPT !.context = ctx, !.success_count = @ + 1]
          ELSE hl[i]]
  ELSE Append(hl, [learning_type |-> ltype, content |-> content,
                   context |-> ctx, success_count |-> 1])

\* mutant: DO UPDATE SET success_count = hive_learnings.success_count - 1
UpsertDecrement(hl, ltype, content, ctx) ==
  IF \E i \in DOMAIN hl : hl[i].content = content
  THEN [i \in DOMAIN hl |->
          IF hl[i].content = content
          THEN [hl[i] EXCEPT !.success_count = @ - 1]
          ELSE hl[i]]
  ELSE Append(hl, [learning_type |-> ltype, content |-> content,
                   context |-> ctx, success_count |-> 1])

\* INSERT INTO hive_learnings (learning_type, content, context, success_count)
\* VALUES ($1, $2, $3, 1)
\* ON CONFLICT (content) DO UPDATE SET success_count = success_count + 1
Upsert(hl, ltype, content, ctx) ==
  IF \E i \in DOMAIN hl : hl[i].content = content
  THEN [i \in DOMAIN hl |->
          IF hl[i].content = content
          THEN [hl[i] EXCEPT !.success_count = @ + 1]
          ELSE hl[i]]
  ELSE Append(hl, [learning_type |-> ltype, content |-> content,
                   context |-> ctx, success_count |-> 1])

RECURSIVE SumCounts(_)
SumCounts(hl) ==
  IF hl = <<>> THEN 0 ELSE Head(hl).success_count + SumCounts(Tail(hl))

\* ------------------------------------------------------------- requests
\* the prospect a generate request names: req.body's prospect_id and
\* prospect_name, or the <name> of /script <name>
NoKey == [prospect_id |-> NoId, prospect_name |-> <<>>]

\* the locals of generateDailyReport: oneDayAgo, newProspects.rows, the two
\* counts, topProspects, the position of the loop over them, and the
\* entries of the suggested-approaches section; `failed` keeps the positions
\* whose AI call threw (history, the code only logs nothing and goes on),
\* `inflight` the positions whose messages.create has been called and has
\* neither returned nor thrown, `called` every position it was called for,
\* in the order of the calls (history)
NoReport == [since |-> NullTime, rows |-> <<>>, total |-> NoCount,
             qualified |-> NoCount, selected |-> <<>>, idx |-> 0,
             approaches |-> <<>>, failed |-> {}, inflight |-> {}, called |-> <<>>]

\* the scheduler: the hours of day of the registered cron jobs, the time of
\* their registration, and the instants at which a scheduled run was started
NoCron == [jobs |-> {}, registered |-> 0, fired |-> {}]

\* a slot holds one running handler: its position and its local variables
Idle == [kind |-> "idle", entry |-> "none", pc |-> "idle",
         sid |-> NoId, fb |-> Null, key |-> NoKey, pid |-> NoId, row |-> NoRow,
         rep |-> NoReport]

\* the query string of GET /ai-crm/hive/learnings: type ('' when absent) and
\* limit (NotANumber when absent or not numeric)
NoQuery == [type |-> <<>>, limit |-> NotANumber]

\* the reply sent by the latest step (HTTP response or bot message), NoReply
\* when that step sent none; status "ignored" is a handler that returned
\* without replying
NoReply == [kind |-> "none", entry |-> "none", fb |-> Null, key |-> NoKey,
            script_id |-> NoId, status |-> "none", err |-> "none",
            query |-> NoQuery, rows |-> <<>>, report |-> NoReport]

\* slot r is the lowest free slot (slots are interchangeable)
Free(r) ==
  /\ reqs[r].pc = "idle"
  /\ \A q \in Slots : q < r => reqs[q].pc # "idle"

\* the reply to request q: outcome st, e the statement that threw, the
\* script id handed out by a generate reply (script_id / callback_data), and
\* the report a report run sends
Reply(q, st, e) ==
  [kind |-> q.kind, entry |-> q.entry, fb |-> q.fb, key |-> q.key,
   script_id |-> IF q.kind = "gen" /\ st = "ok" THEN q.sid ELSE NoId,
   status |-> st, err |-> e, query |-> NoQuery, rows |-> <<>>,
   report |-> IF q.kind = "report" /\ st = "ok" THEN q.rep ELSE NoReport]

\* mutant: the allow-list is never consulted
EveryoneAllowed(chatId) == TRUE

\* function isAllowed(chatId)
isAllowed(chatId) ==
  IF Cardinality(allowedUsers) = 0 THEN TRUE ELSE chatId \in allowedUsers

\* the database and the process right after start-up; the environment gives
\* ANTHROPIC_API_KEY or not, TELEGRAM_ALLOWED_USERS or not
Init ==
  /\ now = 0
  /\ leads = <<>>
  /\ scripts = <<>>
  /\ learnings = <<>>
  /\ reqs = [r \in 1 .. MaxReq |-> Idle]
  /\ out = NoReply
  /\ aiConfigured \in BOOLEAN
  /\ allowedUsers \in {{}, {1}}
  /\ cron = NoCron
  /\ posOk = [c \in Texts \cup {EmptyText} |-> 0]
  /\ raced = [c \in Texts \cup {EmptyText} |-> FALSE]

\* the handler in slot r replies and ends
Finish(r, q, st, e) ==
  /\ reqs' = [reqs EXCEPT ![r] = Idle]
  /\ out' = Reply(q, st, e)

\* the handler in slot r suspends at its next await with locals q
Suspend(r, q) ==
  /\ reqs' = [reqs EXCEPT ![r] = q]
  /\ out' = NoReply

\* the wall clock read by NOW()
Tick ==
  /\ now < MaxNow
  /\ now' = now + 1
  /\ out' = NoReply
  /\ UNCHANGED <<leads, scripts, learnings, reqs, aiConfigured,
                 allowedUsers, cron, posOk, raced>>

\* POST /ai-crm/leads
CreateLead(in, fail) ==
  /\ Len(leads) < MaxLeads
  /\ IF in.name = <<>> \/ in.source = EmptyText \/ fail
     THEN UNCHANGED leads
     ELSE leads' = InsertLead(leads, in, now)
  /\ out' = NoReply
  /\ UNCHANGED <<now, scripts, learnings, reqs, aiConfigured,
                 allowedUsers, cron, posOk, raced>>

\* ------------------------------------------------------------- generate
\* what anthropic.messages.create can do: throw, or resolve to a message
\* whose content is a list of blocks
AiResponses ==
  { [throws |-> TRUE,  content |-> <<>>],
    [throws |-> FALSE, content |-> <<>>],
    [throws |-> FALSE, content |-> <<[type |-> "tool_use", text |-> Null]>>] }
  \cup { [throws |-> FALSE, content |-> <<[type |-> "text", text |-> t]>>] :
           t \in Texts \cup {EmptyText} }

\* response.content[0].type === 'text' ? response.content[0].text : ''
ScriptText(resp) ==
  IF resp.content[1].type = "text" THEN resp.content[1].text ELSE EmptyText

\* the await of messages.create ends in the catch block: the call threw, or
\* content[0] is undefined and reading .type throws
AiRaises(resp) == resp.throws \/ resp.content = <<>>

\* script rows stored plus the inserts still to come from running handlers
ScriptsInFlight ==
  Len(scripts) + Cardinality({q \in Slots : reqs[q].pc = "ai"})

\* bodies of POST /ai-crm/scripts/generate
GenerateInputs ==
  { [prospect_id |-> i, prospect_name |-> <<>>] : i \in DOMAIN leads \cup {GhostId} }
  \cup { [prospect_id |-> NoId, prospect_name |-> n] : n \in SearchNames }

StartGenerate(entry, key) ==
  [Idle EXCEPT !.kind = "gen", !.entry = entry, !.key = key]

\* the rows[0] candidates of the lookup: by id when prospect_id is given,
\* else by name
Lookup(ls, key) ==
  IF key.prospect_id # NoId THEN FindById(ls, key.prospect_id)
  ELSE FindByName(ls, key.prospect_name)

\* mutant: the not-found check is left out
ProspectNeverMissing(found) == FALSE

\* `if (!prospect)` / `if (result.rows.length === 0)`
ProspectMissing(found) == found = {}

\* after the lookup: 404, 'AI service not configured', or messages.create;
\* from there on the handler reads the prospect row, never the request's key
GenerateLookedUp(r, q, found) ==
  IF ProspectMissing(found) THEN Finish(r, q, "notfound", "none")
  ELSE IF ~aiConfigured THEN Finish(r, q, "noai", "none")
  ELSE \E p \in found :
         Suspend(r, [q EXCEPT !.pc = "ai", !.pid = p, !.key = NoKey])

\* POST /ai-crm/scripts/generate, up to the call of messages.create
RestGenerateLookup(r, in, fail) ==
  /\ Free(r)
  /\ ScriptsInFlight < MaxScripts
  /\ LET q == StartGenerate("rest", in) IN
     IF in.prospect_id = NoId /\ in.prospect_name = <<>>
     THEN Finish(r, q, "badrequest", "none")
     ELSE IF fail THEN Finish(r, q, "error", "lookup")
     ELSE GenerateLookedUp(r, q, Lookup(leads, in))
  /\ UNCHANGED <<now, leads, scripts, learnings, aiConfigured, allowedUsers, cron,
                 posOk, raced>>

\* bot.onText(/\/script (.+)/), up to the call of messages.create
TgScriptLookup(r, chat, search, fail) ==
  /\ Free(r)
  /\ ScriptsInFlight < MaxScripts
  /\ LET q == StartGenerate("tg", [prospect_id |-> NoId, prospect_name |-> search]) IN
     IF ~isAllowed(chat) THEN Finish(r, q, "ignored", "none")
     ELSE IF fail THEN Finish(r, q, "error", "lookup")
     ELSE GenerateLookedUp(r, q, FindByName(leads, search))
  /\ UNCHANGED <<now, leads, scripts, learnings, aiConfigured, allowedUsers, cron,
                 posOk, raced>>

\* server.ts: messages.create returns, the script is stored, res.json(...)
RestGenerateAi(r, resp, fail) ==
  /\ reqs[r].kind = "gen" /\ reqs[r].entry = "rest" /\ reqs[r].pc = "ai"
  /\ IF AiRaises(resp)
     THEN /\ Finish(r, reqs[r], "error", "ai")
          /\ UNCHANGED scripts
     ELSE IF fail
     THEN /\ Finish(r, reqs[r], "error", "insert")
          /\ UNCHANGED scripts
     ELSE /\ scripts' = InsertScript(scripts, reqs[r].pid, ScriptText(resp))
          /\ Finish(r, [reqs[r] EXCEPT !.sid = Len(scripts) + 1], "ok", "none")
  /\ UNCHANGED <<now, leads, learnings, aiConfigured, allowedUsers, cron, posOk, raced>>

\* telegram bot: messages.create returns, the INSERT with .catch(() => null),
\* `scriptRecord?.rows[0]?.id || 'unknown'`, the message with the buttons
TgScriptAi(r, resp, fail) ==
  /\ reqs[r].kind = "gen" /\ reqs[r].entry = "tg" /\ reqs[r].pc = "ai"
  /\ IF AiRaises(resp)
     THEN /\ Finish(r, reqs[r], "error", "ai")
          /\ UNCHANGED scripts
     ELSE IF fail
     THEN /\ Finish(r, [reqs[r] EXCEPT !.sid = MalformedId], "ok", "insert")
          /\ UNCHANGED scripts
     ELSE /\ scripts' = InsertScript(scripts, reqs[r].pid, ScriptText(resp))
          /\ Finish(r, [reqs[r] EXCEPT !.sid = Len(scripts) + 1], "ok", "none")
  /\ UNCHANGED <<now, leads, learnings, aiConfigured, allowedUsers, cron, posOk, raced>>

\* ------------------------------------------------------- submit feedback
\* the learning upserts applied since start-up, over the contents S
RECURSIVE SumPosOk(_)
SumPosOk(S) ==
  IF S = {} THEN 0
  ELSE LET c == CHOOSE c \in S : TRUE IN posOk[c] + SumPosOk(S \ {c})

\* the learning upserts applied so far plus those still to come from
\* handlers that are past their feedback UPDATE
WinsInFlight ==
  SumPosOk(DOMAIN posOk)
    + Cardinality({q \in Slots : reqs[q].pc \in {"select", "upsert"}})

\* ids a feedback request can name: a stored script, a UUID of no row,
\* or the bot's 'unknown'
ScriptIdInputs == DOMAIN scripts \cup {GhostId, MalformedId}

StartFeedback(entry, sid, f) ==
  [Idle EXCEPT !.kind = "fb", !.entry = entry, !.sid = sid, !.fb = f]

\* mutant: the UPDATE in a try of its own, a failed write is logged and the
\* handler goes on
FeedbackUpdateSwallowed(r, q, fail) ==
  /\ IF fail \/ UpdateRaises(scripts, q.sid, q.fb)
     THEN UNCHANGED scripts
     ELSE scripts' = UpdateFeedback(scripts, q.sid, q.fb, now)
  /\ IF IsPositive(q.fb) THEN Suspend(r, [q EXCEPT !.pc = "select"])
     ELSE Finish(r, q, "ok", "none")

\* the UPDATE of the feedback columns and what follows it up to the next
\* await: the SELECT for a positive value, else the reply
FeedbackUpdate(r, q, fail) ==
  IF fail \/ UpdateRaises(scripts, q.sid, q.fb)
  THEN /\ Finish(r, q, "error", "update")
       /\ UNCHANGED scripts
  ELSE /\ scripts' = UpdateFeedback(scripts, q.sid, q.fb, now)
       /\ IF IsPositive(q.fb) THEN Suspend(r, [q EXCEPT !.pc = "select"])
          ELSE Finish(r, q, "ok", "none")

\* POST /ai-crm/feedback/:scriptId, up to the end of the UPDATE
RestFeedbackUpdate(r, sid, f, fail) ==
  /\ Free(r)
  /\ IsPositive(f) => WinsInFlight < MaxWins
  /\ LET q == StartFeedback("rest", sid, f) IN
     IF ~IsValidFeedback(f)
     THEN /\ Finish(r, q, "invalid", "none")
          /\ UNCHANGED scripts
     ELSE FeedbackUpdate(r, q, fail)
  /\ UNCHANGED <<now, leads, learnings, aiConfigured, allowedUsers, cron, posOk, raced>>

\* bot.on('callback_query'), data "feedback:<scriptId>:<feedbackType>",
\* up to the end of the UPDATE
TgFeedbackUpdate(r, chat, sid, f, fail) ==
  /\ Free(r)
  /\ IsPositive(f) => WinsInFlight < MaxWins
  /\ LET q == StartFeedback("tg", sid, f) IN
     IF ~isAllowed(chat)
     THEN /\ Finish(r, q, "ignored", "none")
          /\ UNCHANGED scripts
     ELSE FeedbackUpdate(r, q, fail)
  /\ UNCHANGED <<now, leads, learnings, aiConfigured, allowedUsers, cron, posOk, raced>>

\* the SELECT of the script and its lead, and `if (scriptRecord.rows.length > 0)`
FeedbackSelect(r, entry, fail) ==
  /\ reqs[r].kind = "fb" /\ reqs[r].entry = entry /\ reqs[r].pc = "select"
  /\ LET row == SelectScript(scripts, leads, reqs[r].sid) IN
     IF fail THEN Finish(r, reqs[r], "error", "select")
     ELSE IF row.found THEN Suspend(r, [reqs[r] EXCEPT !.pc = "upsert", !.row = row])
     ELSE Finish(r, reqs[r], "ok", "none")
  /\ UNCHANGED <<now, leads, scripts, learnings, aiConfigured, allowedUsers, cron,
                 posOk, raced>>

\* server.ts: the SELECT inside `if (feedback === 'got_reply' || ...)`
RestFeedbackSelect(r, fail) == FeedbackSelect(r, "rest", fail)

\* telegram bot: the same SELECT in the callback handler
TgFeedbackSelect(r, fail) == FeedbackSelect(r, "tg", fail)

\* another positive submission for a different script of the same text is
\* between its UPDATE and its upsert
Overlaps(r, c) ==
  \E q \in Slots \ {r} :
     /\ reqs[q].kind = "fb" /\ reqs[q].pc \in {"select", "upsert"}
     /\ reqs[q].sid # reqs[r].sid
     /\ reqs[q].sid \in DOMAIN scripts
     /\ scripts[reqs[q].sid].script_text = c

\* the INSERT ... ON CONFLICT of the handler in slot r, and its reply
FeedbackUpsert(r, entry, ltype, fail) ==
  /\ reqs[r].kind = "fb" /\ reqs[r].entry = entry /\ reqs[r].pc = "upsert"
  /\ LET row == reqs[r].row
         c   == row.script_text IN
     IF fail
     THEN /\ Finish(r, reqs[r], "error", "upsert")
          /\ UNCHANGED <<learnings, posOk, raced>>
     ELSE /\ learnings' = Upsert(learnings, ltype, c, Context(row, reqs[r].fb))
          /\ Finish(r, reqs[r], "ok", "none")
          /\ posOk' = [posOk EXCEPT ![c] = @ + 1]
          /\ raced' = [raced EXCEPT ![c] = @ \/ Overlaps(r, c)]
  /\ UNCHANGED <<now, leads, scripts, aiConfigured, allowedUsers, cron>>

\* server.ts: the upsert and res.json({ success: true })
RestFeedbackUpsert(r, fail) ==
  FeedbackUpsert(r, "rest", RestLearningType(reqs[r].row.script_type), fail)

\* telegram bot: the upsert and answerCallbackQuery('Feedback recorded!')
TgFeedbackUpsert(r, fail) ==
  FeedbackUpsert(r, "tg", TgLearningType(reqs[r].row.script_type), fail)

\* the scripts and learnings a feedback handler leaves behind when it runs
\* from the store <<ss, hl>> at time t with no other handler in between and
\* no store failure: the UPDATE (unless it raises), then for a positive
\* value the SELECT and, when it finds the script, the upsert
StoreAfterSubmit(ss, hl, ls, sid, f, t, entry) ==
  IF UpdateRaises(ss, sid, f) THEN <<ss, hl>>
  ELSE LET written == UpdateFeedback(ss, sid, f, t)
           row == SelectScript(written, ls, sid) IN
       IF IsPositive(f) /\ row.found
       THEN <<written,
              Upsert(hl,
                     IF entry = "rest" THEN RestLearningType(row.script_type)
                                       ELSE TgLearningType(row.script_type),
                     row.script_text, Context(row, f))>>
       ELSE <<written, hl>>

\* POST /ai-crm/feedback/:scriptId run to its reply
RestStoreAfter(ss, hl, ls, sid, f, t) ==
  IF ~IsValidFeedback(f) THEN <<ss, hl>>
  ELSE StoreAfterSubmit(ss, hl, ls, sid, f, t, "rest")

\* bot.on('callback_query') run to its answer, from a chat that is allowed
TgStoreAfter(ss, hl, ls, sid, f, t) ==
  StoreAfterSubmit(ss, hl, ls, sid, f, t, "tg")

\* script generation, from the empty database
Next ==
  \/ \E in \in LeadInputs(Len(leads) + 1), fail \in BOOLEAN : CreateLead(in, fail)
  \/ \E r \in Slots, in \in GenerateInputs, fail \in BOOLEAN :
       RestGenerateLookup(r, in, fail)
  \/ \E r \in Slots, chat \in Chats, search \in SearchNames \ {<<>>},
        fail \in BOOLEAN :
       TgScriptLookup(r, chat, search, fail)
  \/ \E r \in Slots, resp \in AiResponses, fail \in BOOLEAN : RestGenerateAi(r, resp, fail)
  \/ \E r \in Slots, resp \in AiResponses, fail \in BOOLEAN : TgScriptAi(r, resp, fail)

Spec == Init /\ [][Next]_vars

\* ------------------------------------------------ feedback specifications
\* the two leads that CreateLead stores from LeadInputs(1) and LeadInputs(2)
TwoLeads ==
  InsertLead(InsertLead(<<>>, CHOOSE in \in LeadInputs(1) : in.name # <<>>, 0),
             CHOOSE in \in LeadInputs(2) : in.name # <<>>, 0)

\* script tables that generation leaves behind (each one is a state that
\* Spec reaches): one script per lead, of equal or different text
GeneratedTables ==
  { InsertScript(InsertScript(<<>>, 1, "t1"), 2, t) : t \in Texts }

InitFeedback ==
  /\ now = 0
  /\ leads = TwoLeads
  /\ scripts \in GeneratedTables
  /\ learnings = <<>>
  /\ reqs = <<Idle>>
  /\ out = NoReply
  /\ aiConfigured = TRUE
  /\ allowedUsers = {1}
  /\ cron = NoCron
  /\ posOk = [c \in Texts \cup {EmptyText} |-> 0]
  /\ raced = [c \in Texts \cup {EmptyText} |-> FALSE]

\* feedback submissions one at a time, with every failure of the store (a
\* query fails only in a handler that gets to run it) and every kind of
\* value: got_reply stands for the positive ones here, which take the same
\* branch of the handler; SpecRace draws both
NextFeedback ==
  \/ Tick
  \/ \E r \in Slots, sid \in ScriptIdInputs, f \in FeedbackInputs \ {"converted"} :
       \E fail \in (IF IsValidFeedback(f) THEN BOOLEAN ELSE {FALSE}) :
         RestFeedbackUpdate(r, sid, f, fail)
  \/ \E r \in Slots, chat \in Chats, sid \in ScriptIdInputs, f \in FeedbackInputs \ {"converted"} :
       \E fail \in (IF isAllowed(chat) THEN BOOLEAN ELSE {FALSE}) :
         TgFeedbackUpdate(r, chat, sid, f, fail)
  \/ \E r \in Slots, fail \in BOOLEAN : RestFeedbackSelect(r, fail)
  \/ \E r \in Slots, fail \in BOOLEAN : TgFeedbackSelect(r, fail)
  \/ \E r \in Slots, fail \in BOOLEAN : RestFeedbackUpsert(r, fail)
  \/ \E r \in Slots, fail \in BOOLEAN : TgFeedbackUpsert(r, fail)

SpecFeedback == InitFeedback /\ [][NextFeedback]_vars

InitRace ==
  /\ now = 0
  /\ leads = TwoLeads
  /\ scripts \in GeneratedTables
  /\ learnings = <<>>
  /\ reqs = [r \in 1 .. MaxReq |-> Idle]
  /\ out = NoReply
  /\ aiConfigured = TRUE
  /\ allowedUsers = {}
  /\ cron = NoCron
  /\ posOk = [c \in Texts \cup {EmptyText} |-> 0]
  /\ raced = [c \in Texts \cup {EmptyText} |-> FALSE]

NextRace ==
  \/ \E r \in Slots, sid \in DOMAIN scripts, f \in {"got_reply", "converted"} :
       RestFeedbackUpdate(r, sid, f, FALSE)
  \/ \E r \in Slots, sid \in DOMAIN scripts, f \in {"got_reply", "converted"} :
       TgFeedbackUpdate(r, 1, sid, f, FALSE)
  \/ \E r \in Slots : RestFeedbackSelect(r, FALSE)
  \/ \E r \in Slots : TgFeedbackSelect(r, FALSE)
  \/ \E r \in Slots, fail \in BOOLEAN : RestFeedbackUpsert(r, fail)
  \/ \E r \in Slots, fail \in BOOLEAN : TgFeedbackUpsert(r, fail)

SpecRace == InitRace /\ [][NextRace]_vars

\* ----------------------------------------------------------- hive queries
DefaultLimit     == 50     \* parseInt(req.query.limit) || 50
LeaderboardLimit == 10     \* LIMIT 10

\* query strings of GET /ai-crm/hive/learnings
LimitInputs == {NotANumber, -1, 0, 1, 2, LeaderboardLimit}
TypeInputs  == {<<>>, <<"winning_", "approach">>, <<"winning_", "objection">>}

\* parseInt(req.query.limit as string) || 50: NaN and 0 are falsy
ParseLimit(raw) == IF raw = NotANumber \/ raw = 0 THEN DefaultLimit ELSE raw

\* `if (type)` adds WHERE learning_type = $1
Matching(hl, type) ==
  { i \in DOMAIN hl : type = <<>> \/ hl[i].learning_type = type }

\* ORDER BY success_count DESC over the rows S: every order the database may
\* return (rows of equal success_count come in an order it chooses)
RECURSIVE OrderBySuccessDesc(_, _)
OrderBySuccessDesc(hl, S) ==
  IF S = {} THEN {<<>>}
  ELSE LET top == { i \in S : \A j \in S :
                      hl[j].success_count <= hl[i].success_count } IN
       UNION { { <<i>> \o o : o \in OrderBySuccessDesc(hl, S \ {i}) } : i \in top }

\* LIMIT n
FirstRows(o, n) == SubSeq(o, 1, IF n < Len(o) THEN n ELSE Len(o))

\* the rows of a result, as the response carries them
RowsOf(hl, o) ==
  [k \in DOMAIN o |->
     [id |-> o[k], learning_type |-> hl[o[k]].learning_type,
      content |-> hl[o[k]].content, context |-> hl[o[k]].context,
      success_count |-> hl[o[k]].success_count]]

\* SELECT * FROM hive_learnings [WHERE learning_type = $1]
\* ORDER BY success_count DESC LIMIT $n
SelectLearnings(hl, type, limit) ==
  { RowsOf(hl, FirstRows(o, limit)) :
      o \in OrderBySuccessDesc(hl, Matching(hl, type)) }

\* mutant: the leaderboard query without its LIMIT
SelectLeaderboardAll(hl) ==
  { RowsOf(hl, o) : o \in OrderBySuccessDesc(hl, DOMAIN hl) }

\* SELECT hl.id, ... FROM hive_learnings hl ORDER BY hl.success_count DESC LIMIT 10
SelectLeaderboard(hl) ==
  { RowsOf(hl, FirstRows(o, LeaderboardLimit)) :
      o \in OrderBySuccessDesc(hl, DOMAIN hl) }

\* PostgreSQL rejects a negative LIMIT
LimitRaises(limit) == limit < 0

\* the response of a query handler
QueryReply(kind, q, st, e, rows) ==
  [NoReply EXCEPT !.kind = kind, !.entry = "rest", !.status = st, !.err = e,
                  !.query = q, !.rows = rows]

\* GET /ai-crm/hive/learnings?type=&limit=
ListLearnings(type, raw, fail) ==
  /\ LET q == [type |-> type, limit |-> raw] IN
     IF fail \/ LimitRaises(ParseLimit(raw))
     THEN out' = QueryReply("list", q, "error", "select", <<>>)
     ELSE \E rows \in SelectLearnings(learnings, type, ParseLimit(raw)) :
            out' = QueryReply("list", q, "ok", "none", rows)
  /\ UNCHANGED <<now, leads, scripts, learnings, reqs, aiConfigured,
                 allowedUsers, cron, posOk, raced>>

\* GET /ai-crm/hive/leaderboard
Leaderboard(fail) ==
  /\ IF fail
     THEN out' = QueryReply("board", NoQuery, "error", "select", <<>>)
     ELSE \E rows \in SelectLeaderboard(learnings) :
            out' = QueryReply("board", NoQuery, "ok", "none", rows)
  /\ UNCHANGED <<now, leads, scripts, learnings, reqs, aiConfigured,
                 allowedUsers, cron, posOk, raced>>

\* the Learning that wins on the i-th text have left with success_count n
HiveRow(i, n) ==
  [learning_type |-> RestLearningType("approach"),
   content |-> "t" \o ToString(i),
   context |-> Context(SelectScript(InsertScript(<<>>, 1, "t1"), TwoLeads, 1),
                       "got_reply"),
   success_count |-> n]

\* learnings tables that earlier wins have left behind: up to MaxTies rows
\* with every count in 1..2; and tables about as long as the leaderboard,
\* with the oldest row the highest, and with the newest row the highest and
\* the two oldest rows equal
HiveTables ==
  UNION { { [i \in 1 .. n |-> HiveRow(i, c[i])] : c \in [1 .. n -> 1 .. 2] } :
            n \in 0 .. MaxTies }
  \cup { [i \in 1 .. n |-> HiveRow(i, n + 1 - i)] :
           n \in LeaderboardLimit .. MaxLearnings }
  \cup { [i \in 1 .. n |-> HiveRow(i, IF i = 1 THEN 1 ELSE i - 1)] :
           n \in LeaderboardLimit .. MaxLearnings }

InitHive ==
  /\ now = 0
  /\ leads = TwoLeads
  /\ scripts \in { g \in GeneratedTables : g[2].script_text # g[1].script_text }
  /\ learnings \in HiveTables
  /\ reqs = <<Idle>>
  /\ out = NoReply
  /\ aiConfigured = TRUE
  /\ allowedUsers = {}
  /\ cron = NoCron
  /\ posOk = [c \in Texts \cup {EmptyText} |-> 0]
  /\ raced = [c \in Texts \cup {EmptyText} |-> FALSE]

\* the two queries of the hive, between wins that change the ranking (the
\* store fails a list request whatever it asks for: one request stands for
\* all)
NextHive ==
  \/ \E type \in TypeInputs, raw \in LimitInputs :
       \E fail \in (IF type = <<>> /\ raw = NotANumber THEN BOOLEAN ELSE {FALSE}) :
         ListLearnings(type, raw, fail)
  \/ \E fail \in BOOLEAN : Leaderboard(fail)
  \/ \E r \in Slots, sid \in DOMAIN scripts : RestFeedbackUpdate(r, sid, "got_reply", FALSE)
  \/ \E r \in Slots : RestFeedbackSelect(r, FALSE)
  \/ \E r \in Slots : RestFeedbackUpsert(r, FALSE)

SpecHive == InitHive /\ [][NextHive]_vars

\* ------------------------------------------------------ lead requests
\* the five funnel stages
StatusValues == {"new", "contacted", "qualified", "converted", "lost"}

\* scores a request body can carry
ScoreInputs == {NoScore, 0, 70, 150, -5}

\* bodies of POST /ai-crm/leads with every score, and one without a name
LeadBodies ==
  { [name |-> <<"A", "n">>, source |-> "LINE", notes |-> "pricing", score |-> sc] :
      sc \in ScoreInputs }
  \cup { [name |-> <<>>, source |-> "LINE", notes |-> Null, score |-> 70] }

\* bodies of PATCH /ai-crm/leads/:id: each field given or not
PatchBodies ==
  [status : {Null, "contacted", "archived"},
   notes : {Null, "called"},
   ai_score : {NoScore, 70, 150},
   next_best_action : {Null, "call"}]

\* `if (status)`, `if (notes)`, `if (next_best_action)`: a string given
Given(v) == v # Null /\ v # EmptyText

\* `if (updates.length <= 1)`: only updated_at = NOW() was pushed
NothingToUpdate(b) ==
  /\ ~Given(b.status) /\ ~Given(b.notes) /\ ~Given(b.next_best_action)
  /\ b.ai_score = NoScore

\* UPDATE leads SET status = $1, notes = $2, ai_score = $3,
\* next_best_action = $4, updated_at = NOW() WHERE id = $n, with the SET
\* clauses of the fields given
UpdateLead(ls, id, b) ==
  [i \in DOMAIN ls |->
     IF i # id THEN ls[i]
     ELSE [ls[i] EXCEPT
             !.status = IF Given(b.status) THEN b.status ELSE @,
             !.notes = IF Given(b.notes) THEN b.notes ELSE @,
             !.ai_score = IF b.ai_score # NoScore THEN b.ai_score ELSE @,
             !.next_best_action =
                IF Given(b.next_best_action) THEN b.next_best_action ELSE @]]

\* the response of a lead handler
LeadReply(kind, st) ==
  [NoReply EXCEPT !.kind = kind, !.entry = "rest", !.status = st]

\* PATCH /ai-crm/leads/:id
PatchLead(id, b, fail) ==
  /\ IF NothingToUpdate(b)
     THEN /\ out' = LeadReply("patch", "badrequest")
          /\ UNCHANGED leads
     ELSE IF fail \/ id = MalformedId
     THEN /\ out' = LeadReply("patch", "error")
          /\ UNCHANGED leads
     ELSE IF id \notin DOMAIN leads
     THEN /\ out' = LeadReply("patch", "notfound")
          /\ UNCHANGED leads
     ELSE /\ out' = LeadReply("patch", "ok")
          /\ leads' = UpdateLead(leads, id, b)
  /\ UNCHANGED <<now, scripts, learnings, reqs, aiConfigured, allowedUsers, cron,
                 posOk, raced>>

\* lead creations and lead updates, from the empty database
NextLeads ==
  \/ \E in \in LeadBodies, fail \in BOOLEAN : CreateLead(in, fail)
  \/ \E id \in DOMAIN leads \cup {GhostId, MalformedId}, b \in PatchBodies :
       \E fail \in (IF NothingToUpdate(b) THEN {FALSE} ELSE BOOLEAN) :
         PatchLead(id, b, fail)

\* start-up in one environment (the lead handlers read none of it)
InitLeads == Init /\ aiConfigured /\ allowedUsers = {}

SpecLeads == InitLeads /\ [][NextLeads]_vars

\* ------------------------------------------------------------ lead list
\* query strings of GET /ai-crm/leads: each filter given or not
LeadQueries ==
  [status : {Null, "new", "lost"},
   min_score : {NoScore, 0, 70},
   since : {NullTime, 1},
   limit : {NotANumber, 0, 1}]

\* WHERE 1=1 [AND status = $n] [AND ai_score >= $n] [AND created_at >= $n]:
\* `if (status)`, `if (min_score)` (the string "0" is truthy), `if (since)`
LeadMatching(ls, q) ==
  { i \in DOMAIN ls :
      /\ Given(q.status) => ls[i].status = q.status
      /\ q.min_score # NoScore => ls[i].ai_score >= q.min_score
      /\ q.since # NullTime => ls[i].created_at >= q.since }

\* ORDER BY ai_score DESC, created_at DESC over the rows S: every order the
\* database may return (rows equal in both come in an order it chooses)
RECURSIVE OrderLeads(_, _)
OrderLeads(ls, S) ==
  IF S = {} THEN {<<>>}
  ELSE LET top == { i \in S : \A j \in S :
                      \/ ls[j].ai_score < ls[i].ai_score
                      \/ /\ ls[j].ai_score = ls[i].ai_score
                         /\ ls[j].created_at <= ls[i].created_at } IN
       UNION { { <<i>> \o o : o \in OrderLeads(ls, S \ {i}) } : i \in top }

\* the rows of SELECT * FROM leads, as the response carries them
LeadRows(ls, o) ==
  [k \in DOMAIN o |->
     [id |-> o[k], status |-> ls[o[k]].status, ai_score |-> ls[o[k]].ai_score,
      created_at |-> ls[o[k]].created_at]]

\* SELECT * FROM leads WHERE ... ORDER BY ai_score DESC, created_at DESC
\* LIMIT $n, with parseInt(limit) || 50
SelectLeads(ls, q) ==
  { LeadRows(ls, FirstRows(o, ParseLimit(q.limit))) :
      o \in OrderLeads(ls, LeadMatching(ls, q)) }

\* GET /ai-crm/leads?status=&min_score=&since=&limit=
ListLeads(q, fail) ==
  /\ IF fail \/ LimitRaises(ParseLimit(q.limit))
     THEN out' = QueryReply("leads", q, "error", "select", <<>>)
     ELSE \E rows \in SelectLeads(leads, q) :
            out' = QueryReply("leads", q, "ok", "none", rows)
  /\ UNCHANGED <<now, leads, scripts, learnings, reqs, aiConfigured,
                 allowedUsers, cron, posOk, raced>>

\* lead creations over time, lead updates of the status, and lead lists
NextLeadList ==
  \/ Tick
  \/ \E in \in LeadInputs(Len(leads) + 1) : CreateLead(in, FALSE)
  \/ \E id \in DOMAIN leads :
       PatchLead(id, [status |-> "lost", notes |-> Null, ai_score |-> NoScore,
                      next_best_action |-> Null], FALSE)
  \/ \E q \in LeadQueries :
       \E fail \in (IF q.limit = NotANumber /\ q.status = Null THEN BOOLEAN ELSE {FALSE}) :
         ListLeads(q, fail)

SpecLeadList == InitLeads /\ [][NextLeadList]_vars

\* ---------------------------------------------------------- daily report
Window       == 24     \* Date.now() - 24 * 60 * 60 * 1000, in hours
Threshold    == 70     \* p.ai_score >= 70
Cap          == 3      \* .slice(0, 3)
MidnightHour == 0      \* cron.schedule('0 0 * * *', ..., Asia/Bangkok)
MorningHour  == 7      \* cron.schedule('0 7 * * *', ..., Asia/Bangkok)
HoursOfDay   == 24     \* a cron day

\* WHERE created_at >= $1
InWindow(ls, since) == { i \in DOMAIN ls : ls[i].created_at >= since }

\* ORDER BY ai_score DESC over the rows S: every order the database may
\* return
RECURSIVE OrderByScoreDesc(_, _)
OrderByScoreDesc(ls, S) ==
  IF S = {} THEN {<<>>}
  ELSE LET top == { i \in S : \A j \in S : ls[j].ai_score <= ls[i].ai_score } IN
       UNION { { <<i>> \o o : o \in OrderByScoreDesc(ls, S \ {i}) } : i \in top }

\* the rows of SELECT name, source, ai_score, notes, created_at FROM leads
\* (id tells the rows of equal columns apart)
ProspectRows(ls, o) ==
  [k \in DOMAIN o |->
     [id |-> o[k], name |-> ls[o[k]].name, source |-> ls[o[k]].source,
      ai_score |-> ls[o[k]].ai_score, notes |-> ls[o[k]].notes]]

\* SELECT ... FROM leads WHERE created_at >= $1 ORDER BY ai_score DESC
SelectNewProspects(ls, since) ==
  { ProspectRows(ls, o) : o \in OrderByScoreDesc(ls, InWindow(ls, since)) }

\* SELECT COUNT(*) FROM leads
CountAll(ls) == Len(ls)

\* SELECT COUNT(*) FROM leads WHERE ai_score >= 70
CountQualified(ls) == Cardinality({ i \in DOMAIN ls : ls[i].ai_score >= Threshold })

\* mutant: no threshold, slice(0, 3) of all new prospects
FilterNothing(rows) == rows

\* Array.prototype.filter with p.ai_score >= 70
RECURSIVE FilterQualified(_)
FilterQualified(rows) ==
  IF rows = <<>> THEN <<>>
  ELSE IF Head(rows).ai_score >= Threshold
       THEN <<Head(rows)>> \o FilterQualified(Tail(rows))
       ELSE FilterQualified(Tail(rows))

\* mutant: the filter without the slice
TopProspectsUncapped(rows) == FilterQualified(rows)

\* newProspects.rows.filter(p => p.ai_score >= 70).slice(0, 3)
TopProspects(rows) ==
  LET q == FilterQualified(rows) IN SubSeq(q, 1, IF Cap < Len(q) THEN Cap ELSE Len(q))

\* mutant: a failed AI call empties the section
ApproachesLostOnFailure(rp, resp) ==
  IF AiRaises(resp) THEN <<>>
  ELSE Append(rp.approaches,
              [id |-> rp.selected[rp.idx].id, text |-> ScriptText(resp)])

\* the body of the loop over topProspects: the entry is added unless the
\* call (or reading its content) throws into the empty catch
ApproachesAfter(rp, resp) ==
  IF AiRaises(resp) THEN rp.approaches
  ELSE Append(rp.approaches,
              [id |-> rp.selected[rp.idx].id, text |-> ScriptText(resp)])

\* the elements of a set of positions in rising order
RECURSIVE Ascending(_)
Ascending(S) ==
  IF S = {} THEN <<>>
  ELSE LET k == CHOOSE k \in S : \A j \in S : k <= j IN <<k>> \o Ascending(S \ {k})

\* mutant: Promise.all over topProspects, every call is started at once
IssueAllCalls(selected, settled) == DOMAIN selected \ settled

\* `for (const p of topProspects) { ... await anthropic.messages.create`:
\* the calls in flight once the calls of the positions `settled` have
\* returned or thrown, the one of the next position, if there is one
IssueCalls(selected, settled) ==
  LET todo == DOMAIN selected \ settled IN
  IF todo = {} THEN {} ELSE { CHOOSE k \in todo : \A j \in todo : k <= j }

\* what messages.create does inside a report run
ReportAiResponses ==
  { resp \in AiResponses : AiRaises(resp) \/ ScriptText(resp) \in {EmptyText, "t1"} }

StartReport(trigger) == [Idle EXCEPT !.kind = "report", !.entry = trigger]

\* generateDailyReport up to the end of its first query
ReportFetch(r, q, fail) ==
  IF fail THEN Finish(r, q, "error", "fetch")
  ELSE \E rows \in SelectNewProspects(leads, now - Window) :
         Suspend(r, [q EXCEPT !.pc = "total",
                              !.rep = [NoReport EXCEPT !.since = now - Window,
                                                       !.rows = rows]])

\* bot.onText(/\/report/): isAllowed, then generateDailyReport
ManualReport(r, chat, fail) ==
  /\ Free(r)
  /\ IF ~isAllowed(chat) THEN Finish(r, StartReport("manual"), "ignored", "none")
     ELSE ReportFetch(r, StartReport("manual"), fail)
  /\ UNCHANGED <<now, leads, scripts, learnings, aiConfigured, allowedUsers,
                 cron, posOk, raced>>

\* a registered job is due: its hour of day has come, after registration,
\* and it has not fired for this instant
Due(job) ==
  /\ job \in cron.jobs
  /\ now % HoursOfDay = job
  /\ now > cron.registered
  /\ now \notin cron.fired

\* the callback of a cron job: generateDailyReport
ScheduledReport(r, job, fail) ==
  /\ Free(r)
  /\ Due(job)
  /\ cron' = [cron EXCEPT !.fired = @ \cup {now}]
  /\ ReportFetch(r, StartReport("cron"), fail)
  /\ UNCHANGED <<now, leads, scripts, learnings, aiConfigured, allowedUsers,
                 posOk, raced>>

\* the scheduler's clock: an hour passes once the jobs due have fired
Hour ==
  /\ now < MaxHour
  /\ \A job \in cron.jobs : ~Due(job)
  /\ now' = now + 1
  /\ out' = NoReply
  /\ UNCHANGED <<leads, scripts, learnings, reqs, aiConfigured, allowedUsers,
                 cron, posOk, raced>>

\* SELECT COUNT(*) as count FROM leads
ReportTotal(r, fail) ==
  /\ reqs[r].kind = "report" /\ reqs[r].pc = "total"
  /\ IF fail THEN Finish(r, reqs[r], "error", "total")
     ELSE Suspend(r, [reqs[r] EXCEPT !.pc = "qualified",
                                     !.rep.total = CountAll(leads)])
  /\ UNCHANGED <<now, leads, scripts, learnings, aiConfigured, allowedUsers,
                 cron, posOk, raced>>

\* SELECT COUNT(*) ... WHERE ai_score >= 70, the summary lines, and
\* `if (anthropic && newProspects.rows.length > 0)` with the choice of
\* topProspects: on to the first AI call, or to the totals and the return
ReportQualified(r, fail) ==
  /\ reqs[r].kind = "report" /\ reqs[r].pc = "qualified"
  /\ IF fail THEN Finish(r, reqs[r], "error", "qualified")
     ELSE LET q == [reqs[r] EXCEPT !.rep.qualified = CountQualified(leads)]
              top == IF aiConfigured /\ Len(q.rep.rows) > 0
                     THEN TopProspects(q.rep.rows) ELSE <<>> IN
          IF Len(top) > 0
          THEN Suspend(r, [q EXCEPT !.pc = "ai", !.rep.selected = top, !.rep.idx = 1,
                                    !.rep.inflight = IssueCalls(top, {}),
                                    !.rep.called = Ascending(IssueCalls(top, {}))])
          ELSE Finish(r, q, "ok", "none")
  /\ UNCHANGED <<now, leads, scripts, learnings, aiConfigured, allowedUsers,
                 cron, posOk, raced>>

\* anthropic.messages.create for topProspects[idx] returns or throws; after
\* the last one the totals are added and the report is returned and sent
ReportAi(r, resp) ==
  /\ reqs[r].kind = "report" /\ reqs[r].pc = "ai"
  /\ reqs[r].rep.idx \in reqs[r].rep.inflight
  /\ LET rp == reqs[r].rep
         issued == IssueCalls(rp.selected, 1 .. rp.idx)
         q == [reqs[r] EXCEPT
                 !.rep.approaches = ApproachesAfter(rp, resp),
                 !.rep.failed = IF AiRaises(resp) THEN @ \cup {rp.idx} ELSE @,
                 !.rep.inflight = issued,
                 !.rep.called = @ \o Ascending(issued \ (rp.inflight \ {rp.idx})),
                 !.rep.idx = @ + 1] IN
     IF rp.idx < Len(rp.selected) THEN Suspend(r, q)
     ELSE Finish(r, q, "ok", "none")
  /\ UNCHANGED <<now, leads, scripts, learnings, aiConfigured, allowedUsers,
                 cron, posOk, raced>>

\* a lead of the given score created at time t
ProspectOf(sc, t) ==
  InsertLead(<<>>, [name |-> <<"A", "n">>, source |-> "LINE",
                    notes |-> "pricing", score |-> sc], t)[1]

\* the kinds of lead a report has to tell apart at time Window + 1: created
\* at the edge of the window with the threshold score, just under the
\* score, and just before the window
ProspectKinds ==
  { ProspectOf(Threshold, 1), ProspectOf(Threshold - 1, 1), ProspectOf(Threshold, 0) }

\* leads tables that lead creation has left behind: up to MaxMixed rows of
\* every kind, and longer ones of qualifying leads in the window, scores
\* rising with the creation order, or with the two oldest scores equal
ProspectTables ==
  UNION { [1 .. n -> ProspectKinds] : n \in 0 .. MaxMixed }
  \cup { [i \in 1 .. n |-> ProspectOf(Threshold + i, 1)] : n \in MaxMixed + 1 .. MaxProspects }
  \cup { [i \in 1 .. n |-> ProspectOf(IF i <= 2 THEN Threshold + 5 ELSE Threshold + 5 + i, 1)] :
           n \in MaxMixed + 1 .. MaxProspects }

InitReport ==
  /\ now = Window + 1
  /\ leads \in ProspectTables
  /\ scripts = <<>>
  /\ learnings = <<>>
  /\ reqs = <<Idle>>
  /\ out = NoReply
  /\ aiConfigured \in BOOLEAN
  /\ allowedUsers = {1}
  /\ cron = NoCron
  /\ posOk = [c \in Texts \cup {EmptyText} |-> 0]
  /\ raced = [c \in Texts \cup {EmptyText} |-> FALSE]

\* report runs on request, with every failure of the store and of the AI
NextReport ==
  \/ \E r \in Slots, chat \in Chats :
       \E fail \in (IF isAllowed(chat) THEN BOOLEAN ELSE {FALSE}) :
         ManualReport(r, chat, fail)
  \/ \E r \in Slots, fail \in BOOLEAN : ReportTotal(r, fail)
  \/ \E r \in Slots, fail \in BOOLEAN : ReportQualified(r, fail)
  \/ \E r \in Slots, resp \in ReportAiResponses : ReportAi(r, resp)

SpecReport == InitReport /\ [][NextReport]_vars

\* start-up with TELEGRAM_REPORT_CHAT_ID set: both cron.schedule calls have
\* registered their job
InitCron ==
  /\ now = 0
  /\ leads = TwoLeads
  /\ scripts = <<>>
  /\ learnings = <<>>
  /\ reqs = <<Idle>>
  /\ out = NoReply
  /\ aiConfigured \in BOOLEAN
  /\ allowedUsers = {}
  /\ cron = [jobs |-> {MidnightHour, MorningHour}, registered |-> 0, fired |-> {}]
  /\ posOk = [c \in Texts \cup {EmptyText} |-> 0]
  /\ raced = [c \in Texts \cup {EmptyText} |-> FALSE]

\* the scheduled report runs over the hours after start-up
NextCron ==
  \/ Hour
  \/ \E r \in Slots, job \in cron.jobs, fail \in BOOLEAN : ScheduledReport(r, job, fail)
  \/ \E r \in Slots, fail \in BOOLEAN : ReportTotal(r, fail)
  \/ \E r \in Slots, fail \in BOOLEAN : ReportQualified(r, fail)
  \/ \E r \in Slots, resp \in ReportAiResponses : ReportAi(r, resp)

SpecCron == InitCron /\ [][NextCron]_vars

\* ------------------------------------------------------- telegram access
\* the bot after start-up with TELEGRAM_ALLOWED_USERS set or not, on a
\* database that holds two leads
InitBot ==
  /\ now = 0
  /\ leads = TwoLeads
  /\ scripts = <<>>
  /\ learnings = <<>>
  /\ reqs = <<Idle>>
  /\ out = NoReply
  /\ aiConfigured = TRUE
  /\ allowedUsers \in {{}, {1}}
  /\ cron = NoCron
  /\ posOk = [c \in Texts \cup {EmptyText} |-> 0]
  /\ raced = [c \in Texts \cup {EmptyText} |-> FALSE]

\* what the bot does on /script, on a feedback button and on /report, from
\* every chat, the store answering every query
NextBot ==
  \/ \E r \in Slots, chat \in Chats, search \in {<<"a">>, <<"z">>} :
       TgScriptLookup(r, chat, search, FALSE)
  \/ \E r \in Slots, resp \in ReportAiResponses : TgScriptAi(r, resp, FALSE)
  \/ \E r \in Slots, chat \in Chats, sid \in ScriptIdInputs,
        f \in {"no_response", "got_reply"} :
       TgFeedbackUpdate(r, chat, sid, f, FALSE)
  \/ \E r \in Slots : TgFeedbackSelect(r, FALSE)
  \/ \E r \in Slots : TgFeedbackUpsert(r, FALSE)
  \/ \E r \in Slots, chat \in Chats : ManualReport(r, chat, FALSE)
  \/ \E r \in Slots : ReportTotal(r, FALSE)
  \/ \E r \in Slots : ReportQualified(r, FALSE)
  \/ \E r \in Slots, resp \in ReportAiResponses : ReportAi(r, resp)

SpecBot == InitBot /\ [][NextBot]_vars

\* ================================================================ claims
Contents == Texts \cup {EmptyText}

\* the Learning rows with content c
Rows(c) == { i \in DOMAIN learnings : learnings[i].content = c }

\* no handler is between its request and its reply
Quiescent == \A r \in Slots : reqs[r].pc = "idle"

\* C1: when positive-feedback submissions on scripts of the same text have
\* run concurrently and all have replied, there is exactly one Learning with
\* that text and its successCount is the number of those submissions whose
\* upsert was applied (posOk): no increment is lost in any interleaving.
C1_NoLostIncrement ==
  \A c \in Contents :
    Quiescent =>
      /\ Cardinality(Rows(c)) = (IF posOk[c] > 0 THEN 1 ELSE 0)
      /\ \A i \in Rows(c) : learnings[i].success_count = posOk[c]

\* two submissions on different scripts of text t1 overlapped, both replied,
\* and the Learning counts 2
C1_Witness ==
  /\ Quiescent
  /\ raced["t1"]
  /\ posOk["t1"] = 2
  /\ \E i \in Rows("t1") : learnings[i].success_count = 2

\* C2: no two Learning rows have the same content.
C2_UniqueContent ==
  \A i, j \in DOMAIN learnings :
    learnings[i].content = learnings[j].content => i = j

\* a second win on a content that already had a Learning was folded into it
C2_Witness ==
  \E i \in DOMAIN learnings :
    /\ learnings[i].success_count >= 2
    /\ Cardinality(Rows(learnings[i].content)) = 1

\* the step in which the handler in slot r applies its upsert and replies
UpsertApplied(r) ==
  /\ reqs[r].pc = "upsert"
  /\ reqs'[r].pc = "idle"
  /\ out'.status = "ok"

\* C3: recordWin on a content that has a Learning adds exactly 1 to its
\* successCount and leaves its content, learningType and context as first
\* written, and leaves every other Learning alone; recordWin on a new content
\* appends one Learning with successCount 1.
C3_FirstWriteWins ==
  [][\A r \in Slots :
       UpsertApplied(r) =>
         LET c == reqs[r].row.script_text IN
         /\ \A i \in DOMAIN learnings :
              /\ i \in DOMAIN learnings'
              /\ learnings'[i].content = learnings[i].content
              /\ learnings'[i].learning_type = learnings[i].learning_type
              /\ learnings'[i].context = learnings[i].context
              /\ learnings'[i].success_count =
                   learnings[i].success_count + (IF learnings[i].content = c THEN 1 ELSE 0)
         /\ IF Rows(c) # {}
            THEN Len(learnings') = Len(learnings)
            ELSE /\ Len(learnings') = Len(learnings) + 1
                 /\ learnings'[Len(learnings')].content = c
                 /\ learnings'[Len(learnings')].success_count = 1]_vars

\* the Learning of t1 was created by lead 1's script with got_reply; a later
\* win of lead 2's script (other source and signal) with converted raised it
\* to 2 and has just been acknowledged
C3_Witness ==
  /\ scripts[1].script_text = "t1" /\ scripts[2].script_text = "t1"
  /\ scripts[1].feedback = "got_reply" /\ scripts[2].feedback = "converted"
  /\ out.kind = "fb" /\ out.status = "ok" /\ out.fb = "converted"
  /\ \E i \in Rows("t1") :
       /\ learnings[i].success_count = 2
       /\ learnings[i].context =
            [source |-> leads[1].source, signal |-> leads[1].notes,
             feedback |-> "got_reply"]
       /\ leads[2].source # leads[1].source

\* C4: when the learning upsert of a submission throws, the submission is
\* still answered with success and a script carries the submitted feedback
\* with a feedbackAt.
C4_AggregationFailureHidden ==
  (out.kind = "fb" /\ out.err = "upsert") =>
    /\ out.status = "ok"
    /\ \E s \in DOMAIN scripts :
         scripts[s].feedback = out.fb /\ scripts[s].feedback_at # NullTime

\* C5: a submission with a recognized value whose scriptId matches no stored
\* script is answered NotFound and changes no script and no Learning (read
\* at the handler's step after its UPDATE, where the id is in its locals).
C5_UnknownScriptNotFound ==
  [][\A r \in Slots :
       ( /\ reqs[r].kind = "fb" /\ reqs[r].pc = "select"
         /\ IsValidFeedback(reqs[r].fb)
         /\ reqs[r].sid \notin DOMAIN scripts
         /\ reqs'[r].pc = "idle"
         /\ out'.err = "none" )
       => /\ out'.status = "notfound"
          /\ scripts' = scripts
          /\ learnings' = learnings]_vars

\* C6: a submission whose value is none of the three recognized ones is
\* answered with a failure and changes no script and no Learning, at both
\* entry points.
C6_InvalidFeedbackRejected ==
  [][( /\ out'.kind = "fb"
       /\ out'.status # "ignored"
       /\ ~IsValidFeedback(out'.fb) )
     => /\ out'.status \in {"invalid", "error"}
        /\ scripts' = scripts
        /\ learnings' = learnings]_vars

\* C7: for every stored script, feedbackAt is non-null iff feedback is.
C7_FeedbackAtIffFeedback ==
  \A s \in DOMAIN scripts :
    (scripts[s].feedback_at # NullTime) <=> (scripts[s].feedback # Null)

\* C8 as stated: once a script has a feedback, no step changes its feedback
\* or its feedbackAt.
C8_ResolvedIsTerminal ==
  [][\A s \in DOMAIN scripts :
       scripts[s].feedback # Null =>
         /\ scripts'[s].feedback = scripts[s].feedback
         /\ scripts'[s].feedback_at = scripts[s].feedback_at]_vars

\* the step in which the handler in slot r has its UPDATE applied with a
\* positive value and goes on to its SELECT
UpdateApplied(r) == reqs[r].pc = "idle" /\ reqs'[r].pc = "select"

\* C8 amended: every submission whose UPDATE is applied to a stored script,
\* resolved or not, overwrites feedback with the submitted value and
\* feedbackAt with the time of the UPDATE; a script row changes in no other
\* way, and a feedbackAt that is set is never cleared nor moved back.
C8_FeedbackOverwritten ==
  [][/\ \A r \in Slots :
          (UpdateApplied(r) /\ reqs'[r].sid \in DOMAIN scripts) =>
             /\ scripts'[reqs'[r].sid].feedback = reqs'[r].fb
             /\ scripts'[reqs'[r].sid].feedback_at = now
     /\ \A s \in DOMAIN scripts :
          /\ scripts[s].feedback_at # NullTime =>
               scripts'[s].feedback_at >= scripts[s].feedback_at
          /\ scripts'[s] # scripts[s] =>
               /\ scripts'[s] = [scripts[s] EXCEPT !.feedback = scripts'[s].feedback,
                                                   !.feedback_at = now]
               /\ \/ out'.kind = "fb" /\ scripts'[s].feedback = out'.fb
                  \/ \E r \in Slots : UpdateApplied(r) /\ reqs'[r].sid = s
                                       /\ scripts'[s].feedback = reqs'[r].fb]_vars

\* script 1 (the only one of text t1) won earlier, and a later submission at
\* time 1 has overwritten its feedback with no_response
C8_Witness ==
  /\ scripts[1].script_text # scripts[2].script_text
  /\ posOk[scripts[1].script_text] >= 1
  /\ scripts[1].feedback = "no_response"
  /\ scripts[1].feedback_at = 1

\* C9: generate never stores a Script when the AI call fails or returns no
\* text: no Script row has empty text.
C9_NoEmptyScript ==
  \A i \in DOMAIN scripts : scripts[i].script_text # EmptyText

\* the reply out' answers a generate request whose lookup ran and found no
\* prospect (a reply after the AI call carries no key)
LookupFoundNothing ==
  /\ out'.kind = "gen"
  /\ out'.key # NoKey
  /\ out'.status \notin {"ignored", "badrequest"}
  /\ out'.err # "lookup"
  /\ Lookup(leads, out'.key) = {}

\* C10: generate for a prospect that is not in the prospect store is answered
\* NotFound, starts no AI call and stores no Script; no AI call is ever in
\* flight for a prospect that is not stored.
C10_MissingProspect ==
  [][/\ LookupFoundNothing =>
          /\ out'.status = "notfound"
          /\ scripts' = scripts
          /\ \A r \in Slots : reqs'[r].pc = "ai" => reqs[r].pc = "ai"
     /\ \A r \in Slots : reqs'[r].pc = "ai" => reqs'[r].pid \in DOMAIN leads']_vars

\* a lead is stored, and a generate request for an id of no lead, or for a
\* name no lead matches, has just been answered NotFound
C10_Witness ==
  /\ Len(leads) >= 1
  /\ out.kind = "gen" /\ out.status = "notfound"
  /\ Lookup(leads, out.key) = {}
  /\ scripts = <<>>

\* the reply out answers a hive query that succeeded
HiveAnswer(kind) == out.kind = kind /\ out.status = "ok"

\* the rows of a result come in non-increasing success_count
NonIncreasing(rows) ==
  \A a, b \in DOMAIN rows : a < b => rows[a].success_count >= rows[b].success_count

\* C11: every result of listLearnings (and of the leaderboard) is sorted by
\* successCount descending, and two returned learnings of equal successCount
\* come oldest first.
C11_TiesOldestFirst ==
  (HiveAnswer("list") \/ HiveAnswer("board")) =>
    \A a, b \in DOMAIN out.rows :
      a < b =>
        \/ out.rows[a].success_count > out.rows[b].success_count
        \/ /\ out.rows[a].success_count = out.rows[b].success_count
           /\ out.rows[a].id < out.rows[b].id

\* C12: a leaderboard result has min(10, number of learnings) rows, at most
\* 10, in non-increasing successCount; its rows are distinct rows of the
\* learning set as it is at the call; no learning left out has a higher
\* successCount than one returned; and it is a result of listLearnings with
\* no type filter and limit 10.
C12_LeaderboardTopTen ==
  HiveAnswer("board") =>
    /\ Len(out.rows) <= LeaderboardLimit
    /\ Len(out.rows) = (IF Len(learnings) < LeaderboardLimit
                        THEN Len(learnings) ELSE LeaderboardLimit)
    /\ NonIncreasing(out.rows)
    /\ \A k \in DOMAIN out.rows :
         /\ out.rows[k].id \in DOMAIN learnings
         /\ learnings[out.rows[k].id].content = out.rows[k].content
         /\ learnings[out.rows[k].id].success_count = out.rows[k].success_count
         /\ \A m \in DOMAIN out.rows : out.rows[m].id = out.rows[k].id => m = k
    /\ \A i \in DOMAIN learnings :
         (\A k \in DOMAIN out.rows : out.rows[k].id # i) =>
           \A k \in DOMAIN out.rows :
             learnings[i].success_count <= out.rows[k].success_count
    /\ out.rows \in SelectLearnings(learnings, <<>>, LeaderboardLimit)

\* more than 10 learnings are stored, a win since start-up has added one of
\* them, and the leaderboard has just answered with 10 rows
C12_Witness ==
  /\ HiveAnswer("board")
  /\ Len(learnings) > LeaderboardLimit
  /\ posOk["t1"] + posOk["t2"] >= 1
  /\ Len(out.rows) = LeaderboardLimit

\* C13: a result of listLearnings holds only learnings of the type asked for
\* when one is given, and at most `limit` learnings for every numeric limit
\* asked for, 0 included.
C13_FilterAndLimit ==
  HiveAnswer("list") =>
    /\ out.query.type # <<>> =>
         \A k \in DOMAIN out.rows : out.rows[k].learning_type = out.query.type
    /\ out.query.limit # NotANumber => Len(out.rows) <= out.query.limit

\* C19: every stored prospect's status is one of new, contacted, qualified,
\* converted, lost.
C19_StatusInFunnel ==
  \A i \in DOMAIN leads : leads[i].status \in StatusValues

\* C20: every stored prospect's score is in 0..100.
C20_ScoreInRange ==
  \A i \in DOMAIN leads : leads[i].ai_score \in 0 .. 100

\* a report run has returned its report
ReportSent == out.kind = "report" /\ out.status = "ok"

\* the ids of the first n selected prospects whose AI call did not fail
RECURSIVE KeptIds(_, _, _)
KeptIds(selected, failed, n) ==
  IF n = 0 THEN <<>>
  ELSE KeptIds(selected, failed, n - 1)
         \o (IF n \in failed THEN <<>> ELSE <<selected[n].id>>)

\* the prospects of the suggested-approaches section, in its order
ApproachIds(rp) == [k \in DOMAIN rp.approaches |-> rp.approaches[k].id]

\* C14: in a report run with k <= 3 selected prospects, whatever subset of
\* their AI calls fails, the suggested approaches are exactly the selected
\* prospects whose call did not fail, in the order of selection (those after
\* a failed one included); the run, once at its AI calls, goes on to the next
\* call or returns the report; and the report returned carries the pipeline
\* totals.
C14_FailuresIsolated ==
  /\ [](\A r \in Slots :
          reqs[r].kind = "report" /\ reqs[r].pc = "ai" =>
            /\ Len(reqs[r].rep.selected) <= Cap
            /\ ApproachIds(reqs[r].rep)
                 = KeptIds(reqs[r].rep.selected, reqs[r].rep.failed, reqs[r].rep.idx - 1))
  /\ [](ReportSent =>
          /\ out.report.failed \subseteq DOMAIN out.report.selected
          /\ ApproachIds(out.report)
               = KeptIds(out.report.selected, out.report.failed, Len(out.report.selected))
          /\ out.report.total = CountAll(leads)
          /\ out.report.qualified = CountQualified(leads))
  /\ [][\A r \in Slots :
          reqs[r].kind = "report" /\ reqs[r].pc = "ai" /\ reqs'[r] # reqs[r] =>
            \/ reqs'[r].pc = "ai" /\ reqs'[r].rep.idx = reqs[r].rep.idx + 1
            \/ reqs'[r].pc = "idle" /\ out'.kind = "report" /\ out'.status = "ok"]_vars

\* three prospects were selected, the AI call failed for the second only,
\* and the report sent suggests approaches for the first and the third
C14_Witness ==
  /\ ReportSent
  /\ Len(out.report.selected) = Cap
  /\ out.report.failed = {2}
  /\ ApproachIds(out.report) = <<out.report.selected[1].id, out.report.selected[3].id>>
  /\ out.report.total # NoCount

\* C15: a report run fails only at its first query, the fetch of the
\* prospects of the last 24 hours.
C15_OnlyFetchFails ==
  out.kind = "report" /\ out.status = "error" => out.err = "fetch"

\* the leads a report run started at `since + Window` may select
Qualifying(since) ==
  { i \in DOMAIN leads : leads[i].created_at >= since /\ leads[i].ai_score >= Threshold }

\* the selection sel is the first min(3, q) of the q qualifying leads in
\* descending score
FirstByScore(sel, since) ==
  LET Q == Qualifying(since) IN
  /\ Len(sel) = (IF Cardinality(Q) < Cap THEN Cardinality(Q) ELSE Cap)
  /\ \A k \in DOMAIN sel :
       /\ sel[k].id \in Q
       /\ sel[k].ai_score = leads[sel[k].id].ai_score
       /\ \A m \in DOMAIN sel : sel[m].id = sel[k].id => m = k
       /\ \A m \in DOMAIN sel : k < m => sel[k].ai_score >= sel[m].ai_score
       /\ \A i \in Q :
            (\A m \in DOMAIN sel : sel[m].id # i) => leads[i].ai_score <= sel[k].ai_score

\* C16 as stated: every report run selects the first min(3, q) prospects in
\* descending score among the q created in the last 24 hours with a score
\* of 70 or more.
C16_TopThreeSelected ==
  ReportSent =>
    /\ out.report.since = now - Window
    /\ FirstByScore(out.report.selected, out.report.since)

\* C16 (amended): a report run of a process with an AI client selects the
\* first min(3, q) prospects in descending score among the q created in the
\* last 24 hours with a score of 70 or more, none below 70 or from before
\* the window, none of a lower score than a qualifying one left out; a run of
\* a process without an AI client selects none.
C16_TopThreeWhenAiConfigured ==
  /\ \A r \in Slots :
       reqs[r].kind = "report" /\ reqs[r].pc = "ai" =>
         aiConfigured /\ FirstByScore(reqs[r].rep.selected, reqs[r].rep.since)
  /\ ReportSent =>
       /\ out.report.since = now - Window
       /\ IF aiConfigured
          THEN FirstByScore(out.report.selected, out.report.since)
          ELSE out.report.selected = <<>>

\* more than three leads qualify, and the report sent by a process with an
\* AI client selected three of them
C16_Witness ==
  /\ ReportSent
  /\ aiConfigured
  /\ Cardinality(Qualifying(out.report.since)) > Cap
  /\ Len(out.report.selected) = Cap

\* C17: each successful generation inside a report run leaves a new script
\* row with feedback null for the selected prospect: a step that adds an
\* entry to the suggested approaches adds a row to script_feedback.
C17_ReportStoresScripts ==
  [][\A r \in Slots :
       reqs[r].kind = "report" /\ reqs[r].pc = "ai" /\ reqs'[r] # reqs[r] =>
         LET before == Len(reqs[r].rep.approaches)
             after == IF reqs'[r].pc = "idle" THEN Len(out'.report.approaches)
                      ELSE Len(reqs'[r].rep.approaches) IN
         after > before =>
           /\ Len(scripts') = Len(scripts) + 1
           /\ scripts'[Len(scripts')].feedback = Null]_vars

\* C18: scheduled report runs start once per day, at 7 AM Bangkok time:
\* every scheduled run starts at hour 7 of a day, and no two of them start
\* less than 24 hours apart.
C18_OneRunADayAtSeven ==
  /\ \A h \in cron.fired : h % HoursOfDay = MorningHour
  /\ \A a, b \in cron.fired : a < b => b - a >= HoursOfDay

\* C21: a lead list holds only leads that satisfy every filter given (status
\* equal, ai_score >= min_score, created_at >= since), at most `limit` of
\* them when a numeric limit is given, in non-increasing ai_score.
C21_FiltersLimitOrder ==
  out.kind = "leads" /\ out.status = "ok" =>
    /\ \A k \in DOMAIN out.rows :
         /\ out.query.status # Null => out.rows[k].status = out.query.status
         /\ out.query.min_score # NoScore => out.rows[k].ai_score >= out.query.min_score
         /\ out.query.since # NullTime => out.rows[k].created_at >= out.query.since
    /\ \A a, b \in DOMAIN out.rows : a < b => out.rows[a].ai_score >= out.rows[b].ai_score
    /\ out.query.limit # NotANumber => Len(out.rows) <= out.query.limit

\* the successCount stored for content c, 0 when c has no Learning
Count(hl, c) ==
  SumCounts(SelectSeq(hl, LAMBDA row : row.content = c))

\* the step in which the handler in slot r completes a got_reply or
\* converted submission on a stored script of text c
CompletesWin(r, c) ==
  /\ reqs[r].kind = "fb" /\ reqs[r].pc # "idle"
  /\ reqs[r].fb \in {"got_reply", "converted"}
  /\ reqs[r].sid \in DOMAIN scripts
  /\ scripts[reqs[r].sid].script_text = c
  /\ reqs'[r].pc = "idle"
  /\ out'.status = "ok" /\ out'.err = "none"

\* C22: for every content c, the successCount of the Learning for c is the
\* number of completed positive submissions on stored scripts of text c,
\* whatever script, entry point or repetition they come from: it is 0 at
\* start-up, every step that completes such a submission raises it by one,
\* no other step changes it, and c has a Learning exactly when it is not 0.
\* (A positive submission is answered with success only by a handler that
\* has been through its SELECT, so none completes unseen.)
C22_CountIsCompletedWins ==
  /\ \A c \in Contents : Count(learnings, c) = 0
  /\ [](\A c \in Contents : (Count(learnings, c) = 0) <=> (Rows(c) = {}))
  /\ [][(out'.kind = "fb" /\ out'.fb \in {"got_reply", "converted"} /\ out'.status = "ok")
          => \E r \in Slots :
               reqs[r].pc \in {"select", "upsert"} /\ reqs'[r].pc = "idle"]_vars
  /\ [][\A c \in Contents :
          Count(learnings', c)
            = Count(learnings, c) + Cardinality({ r \in Slots : CompletesWin(r, c) })]_vars

\* the scripts have different texts, script 1 alone has feedback, all
\* submissions have replied, and the Learning of its text counts 2: two
\* submissions on the same script
C22_Witness ==
  /\ Quiescent
  /\ scripts[1].script_text # scripts[2].script_text
  /\ scripts[1].feedback # Null /\ scripts[2].feedback = Null
  /\ Count(learnings, scripts[1].script_text) = 2
  /\ Count(learnings, scripts[2].script_text) = 0

\* C23: every Learning has successCount >= 1 in every state, and no step
\* deletes a Learning or lowers its successCount, a no_response on a script
\* that won earlier included.
C23_CountNeverDrops ==
  /\ [](\A i \in DOMAIN learnings : learnings[i].success_count >= 1)
  /\ [][\A i \in DOMAIN learnings :
          /\ i \in DOMAIN learnings'
          /\ learnings'[i].content = learnings[i].content
          /\ learnings'[i].success_count >= learnings[i].success_count]_vars

\* script 1 (the only one of its text) won twice, a no_response on it has
\* just been acknowledged, and the Learning of its text still counts 2
C23_Witness ==
  /\ out.kind = "fb" /\ out.fb = "no_response" /\ out.status = "ok"
  /\ scripts[1].script_text # scripts[2].script_text
  /\ scripts[1].feedback = "no_response"
  /\ posOk[scripts[1].script_text] = 2
  /\ \E i \in Rows(scripts[1].script_text) : learnings[i].success_count = 2

\* C24: the learning upsert runs only for got_reply and converted: a step
\* that changes the learning set is the upsert of a handler whose value is
\* one of the two, no handler of another value is ever at its SELECT or its
\* upsert, and the step that acknowledges a no_response has written
\* no_response and the time of the write to the script named, if it is
\* stored, to no other script, and has left every Learning as it was.
C24_NoResponseSkipsAggregation ==
  /\ [](\A r \in Slots :
          reqs[r].pc \in {"select", "upsert"} => reqs[r].fb \in {"got_reply", "converted"})
  /\ [][learnings' # learnings =>
          \E r \in Slots : /\ reqs[r].pc = "upsert"
                           /\ reqs[r].fb \in {"got_reply", "converted"}
                           /\ reqs'[r].pc = "idle"]_vars
  /\ [][(out'.kind = "fb" /\ out'.fb = "no_response" /\ out'.status = "ok") =>
          /\ learnings' = learnings
          /\ \E sid \in ScriptIdInputs :
               /\ \A s \in DOMAIN scripts :
                    scripts'[s] = IF s = sid
                                  THEN [scripts[s] EXCEPT !.feedback = "no_response",
                                                          !.feedback_at = now]
                                  ELSE scripts[s]
               /\ DOMAIN scripts' = DOMAIN scripts]_vars

\* script 2 has won and has its Learning; a no_response on script 1 at
\* time 1 has just been acknowledged, is stored on script 1, and the
\* learning set is that one Learning with count 1
C24_Witness ==
  /\ out.kind = "fb" /\ out.fb = "no_response" /\ out.status = "ok"
  /\ scripts[1].feedback = "no_response" /\ scripts[1].feedback_at = 1
  /\ scripts[2].feedback = "got_reply" /\ scripts[2].feedback_at = 0
  /\ Len(learnings) = 1
  /\ learnings[1].content = scripts[2].script_text
  /\ learnings[1].success_count = 1

\* C25: the learning upsert of a submission comes after its own feedback
\* write: a handler that is at its SELECT or its upsert for a stored script
\* has its value and a feedbackAt on that script; the step that applies an
\* upsert is taken by such a handler; and a submission whose feedback write
\* failed is answered at once, leaves scripts and learnings as they were,
\* and has no handler left to run an upsert.
C25_UpsertAfterFeedbackWrite ==
  /\ [](\A r \in Slots :
          (reqs[r].pc \in {"select", "upsert"} /\ reqs[r].sid \in DOMAIN scripts) =>
             /\ scripts[reqs[r].sid].feedback = reqs[r].fb
             /\ scripts[reqs[r].sid].feedback_at # NullTime)
  /\ [][learnings' # learnings =>
          \E r \in Slots :
             /\ reqs[r].pc = "upsert" /\ reqs'[r].pc = "idle"
             /\ reqs[r].sid \in DOMAIN scripts
             /\ scripts[reqs[r].sid].feedback = reqs[r].fb
             /\ scripts' = scripts]_vars
  /\ [][(out'.kind = "fb" /\ out'.err = "update") =>
          /\ out'.status = "error"
          /\ scripts' = scripts
          /\ learnings' = learnings
          /\ reqs' = reqs]_vars

\* a got_reply on script 1 is written with its time, its handler is about
\* to run the upsert, and no Learning exists yet
C25_Witness ==
  \E r \in Slots :
    /\ reqs[r].pc = "upsert" /\ reqs[r].fb = "got_reply" /\ reqs[r].sid = 1
    /\ scripts[1].feedback = "got_reply" /\ scripts[1].feedback_at = 1
    /\ learnings = <<>>

\* C26: the AI calls of a report run are made one at a time: in every state
\* at most one call of a run is in flight; while a run is at its AI calls
\* the call in flight is the one of its current prospect, and the calls of
\* all earlier selected prospects have returned or failed and none of a
\* later one has been made; outside its AI calls a run has none in flight.
C26_OneCallAtATime ==
  /\ \A r \in Slots :
       LET rp == reqs[r].rep IN
       /\ Cardinality(rp.inflight) <= 1
       /\ IF reqs[r].kind = "report" /\ reqs[r].pc = "ai"
          THEN /\ rp.inflight = {rp.idx}
               /\ rp.called = [k \in 1 .. rp.idx |-> k]
               /\ Len(rp.approaches) + Cardinality(rp.failed) = rp.idx - 1
          ELSE rp.inflight = {}
  /\ out.report.inflight = {}

\* the second of three calls of a run is in flight: the first has failed,
\* the third has not been made
C26_Witness ==
  \E r \in Slots :
    /\ reqs[r].kind = "report" /\ reqs[r].pc = "ai"
    /\ Len(reqs[r].rep.selected) = Cap
    /\ reqs[r].rep.inflight = {2}
    /\ reqs[r].rep.failed = {1}
    /\ reqs[r].rep.called = <<1, 2>>

\* the AI calls of run rp: at most one for a selected prospect, none for
\* anything else, at most 3
CallsBounded(rp) ==
  /\ Len(rp.called) <= Cap
  /\ \A k \in DOMAIN rp.called :
       /\ rp.called[k] \in DOMAIN rp.selected
       /\ \A j \in DOMAIN rp.called : rp.called[j] = rp.called[k] => j = k

\* the report sent made one call for each selected prospect, failed or not,
\* and none when the window held no prospect or none of score >= 70
CallsOfReportSent ==
  ReportSent =>
    /\ CallsBounded(out.report)
    /\ Len(out.report.called) = Len(out.report.selected)
    /\ out.report.rows = <<>> => out.report.called = <<>>
    /\ (\A k \in DOMAIN out.report.rows : out.report.rows[k].ai_score < Threshold)
         => out.report.called = <<>>

C28_DeliveredScriptIsStored ==
  (out.kind = "gen" /\ out.status = "ok") =>
    /\ out.script_id \in DOMAIN scripts
    /\ scripts[out.script_id].feedback = Null
    /\ scripts[out.script_id].prospect_id \in DOMAIN leads

\* C29: from every store state, for every script id and every feedback
\* value, the REST feedback endpoint and the Telegram feedback callback
\* leave the same scripts and the same learnings.
C29_EntryPointsAgree ==
  \A sid \in ScriptIdInputs, f \in FeedbackInputs :
    RestStoreAfter(scripts, learnings, leads, sid, f, now)
      = TgStoreAfter(scripts, learnings, leads, sid, f, now)

\* the allow-list is set and chat is not on it
Denied(chat) == allowedUsers # {} /\ chat \notin allowedUsers

\* C30: with a non-empty allow-list, a feedback callback, a /script or a
\* /report from a chat that is not on it changes no lead, script or
\* Learning and starts no handler, so no query and no AI call; with an
\* empty allow-list no request is turned away.
C30_DeniedChatChangesNothing ==
  /\ [][\A chat \in Chats, r \in Slots :
          ( /\ Denied(chat)
            /\ \/ \E sid \in ScriptIdInputs, f \in FeedbackInputs, fail \in BOOLEAN :
                    TgFeedbackUpdate(r, chat, sid, f, fail)
               \/ \E search \in SearchNames, fail \in BOOLEAN :
                    TgScriptLookup(r, chat, search, fail)
               \/ \E fail \in BOOLEAN : ManualReport(r, chat, fail) )
          => /\ leads' = leads /\ scripts' = scripts /\ learnings' = learnings
             /\ reqs' = reqs
             /\ out'.status = "ignored"]_vars
  /\ [](allowedUsers = {} => out.status # "ignored")

\* with the allow-list {1}, a script is stored without feedback, a win has
\* left one Learning, and a feedback callback from another chat has just
\* been turned away
C30_Witness ==
  /\ allowedUsers = {1}
  /\ Denied(2)
  /\ out.kind = "fb" /\ out.status = "ignored"
  /\ Len(scripts) = 2 /\ scripts[2].feedback = Null
  /\ Len(learnings) = 1
====
